---- MODULE Spec2Model ----
(***************************************************************************)
(* Model of the Scout bridge client (scout_mcp/bridge/client.py).          *)
(*                                                                         *)
(* One ScoutBridgeClient instance is shared by a set of asyncio tasks.     *)
(* Every action is one atomic run of a coroutine between two suspension    *)
(* points (an await that really yields to the event loop).  The worker     *)
(* processes, their stdin/stdout pipes and their exits are part of the     *)
(* state.                                                                  *)
(*                                                                         *)
(* The second part models the capability cache                            *)
(* (scout_mcp/tool_discovery.py): the registry, the tracked modification   *)
(* times, the counters, and the watched directory, which changes while a   *)
(* discovery pass runs.  The third part models the agent listing cache     *)
(* (scout_mcp/tools/agent_tools.py) and the handler that lists the tools   *)
(* (scout_mcp/server.py).  Spec is the bridge, SpecCache the capability    *)
(* cache, SpecAgents the agent listing.                                    *)
(***************************************************************************)
EXTENDS Integers, Sequences, FiniteSets, TLC

\* ------------------------------------------------------------------ bounds
NTasks == 2      \* concurrent asyncio tasks using the bridge
MaxProcs == 2    \* worker processes spawned in one run
MaxCalls == 2    \* _send_request invocations in one run

MaxWrites == 3   \* file creations / modifications in one run
MaxDiscover == 3 \* discover_tools invocations in one run

NListers == 2    \* concurrent _list_agents_async coroutines
MaxLists == 3    \* agent listing requests in one run
MaxAdvance == 3  \* observed advances of time.time() in one run

CACHE_TTL == 300 \* AgentToolGenerator.CACHE_TTL, in seconds

Tasks == 1..NTasks
Pids == 1..MaxProcs
Listers == 1..NListers
None == 0        \* Python's None for the process handle / lock holder
WrongId == 0     \* an id no request carries (request ids start at 1)

VARIABLES
    process,      \* self.process: None or the pid of the handle
    request_id,   \* self.request_id
    initialized,  \* self._initialized
    lockHolder,   \* self.lock: the task holding it, or None
    lockWaiters,  \* self.lock: FIFO queue of suspended acquirers
    alive,        \* worker processes that have not exited
    spawned,      \* number of worker processes created so far
    inbox,        \* per process: request ids written to its stdin, unanswered
    outbox,       \* per process: reply frames on its stdout, unread
    task,         \* per task: position and locals of its coroutine
    issued,       \* history: ids assigned at L161-162, in order
    ncalls,       \* history: number of _send_request invocations
    lost,         \* processes whose stdin pipe asyncio has seen lost: every
                  \* later drain() on them raises ConnectionResetError
    \* ---- capability cache (tool_discovery.py)
    dirExists,    \* self.tools_dir.exists()
    fs,           \* per file name of tools_dir: its mtime (0: no such file)
                  \* and whether its module imports without raising
    clock,        \* the last mtime the filesystem has handed out
    tools,        \* self._tools, by the module that defines the tool
    file_mtimes,  \* self._file_mtimes: recorded mtime (0: not tracked)
    cache_hits,   \* self._cache_hits
    cache_misses, \* self._cache_misses
    last_scan,    \* self._last_scan_time: the pass that set it (0: None)
    dpc,          \* position of the running discover_tools: idle/load/stat
    dtodo,        \* files_to_process not yet handled by the loop at L123
    dcur,         \* file_path of the iteration between L144 and L147
    ndisc,        \* history: number of discover_tools invocations
    fresh,        \* history: a pass has begun since the directory last
                  \* changed and since the last invalidate_cache
    inval,        \* history: 1 after invalidate_cache, 2 once the next
                  \* discover_tools has begun, 0 otherwise
    gname,        \* get_tool: the name being looked up (NoPath: none)
    gres,         \* get_tool: the entry last returned (NoTool: None)
    \* ---- agent listing (tools/agent_tools.py, server.py)
    now,          \* time.time()
    agent_cache,  \* self._agent_cache: whether set, and the list
    cache_timestamp, \* self._cache_timestamp (NoTime: None)
    ltask,        \* per coroutine of _list_agents_async: position, result
    listing,      \* outcome of the last handle_list_tools
    nlist,        \* history: listing requests made
    nfetch,       \* history: bridge.list_agents() calls made
    nadv          \* history: advances of the clock

bridgeVars == <<process, request_id, initialized, lockHolder, lockWaiters,
                alive, spawned, inbox, outbox, task, issued, ncalls, lost>>

cacheVars == <<dirExists, fs, clock, tools, file_mtimes, cache_hits,
               cache_misses, last_scan, dpc, dtodo, dcur, ndisc, fresh, inval,
               gname, gres>>

agentVars == <<now, agent_cache, cache_timestamp, ltask, listing, nlist,
               nfetch, nadv>>

vars == <<bridgeVars, cacheVars, agentVars>>

\* The whole state as one record, so that the code between two suspension
\* points can be composed sequentially.
Cur == [process |-> process, request_id |-> request_id,
        initialized |-> initialized, lockHolder |-> lockHolder,
        lockWaiters |-> lockWaiters, alive |-> alive, spawned |-> spawned,
        inbox |-> inbox, outbox |-> outbox, task |-> task,
        issued |-> issued, ncalls |-> ncalls, lost |-> lost]

Commit(S) ==
    /\ process' = S.process
    /\ request_id' = S.request_id
    /\ initialized' = S.initialized
    /\ lockHolder' = S.lockHolder
    /\ lockWaiters' = S.lockWaiters
    /\ alive' = S.alive
    /\ spawned' = S.spawned
    /\ inbox' = S.inbox
    /\ outbox' = S.outbox
    /\ task' = S.task
    /\ issued' = S.issued
    /\ ncalls' = S.ncalls
    /\ lost' = S.lost
    /\ UNCHANGED cacheVars
    /\ UNCHANGED agentVars

\* A coroutine that is not running: op is the last operation, result the
\* way it ended ("" while it runs).
\* Fields: pc the suspension point, op the operation, rid the local
\* request_id (L162), proc the process whose pipe or ready line the coroutine
\* uses, wproc the process whose exit stop() awaits (L126), starts the number
\* of start() invocations made by the operation, lazy whether a call was
\* issued while the session was not Ready, after the exit path pending
\* behind stop(), expired whether the caller-supplied deadline of a call
\* (the timeout argument of query(), L210) has passed.
IdleTask == [pc |-> "idle", op |-> "none", rid |-> 0, proc |-> None,
             wproc |-> None, starts |-> 0, lazy |-> FALSE, after |-> "",
             expired |-> FALSE, result |-> ""]

NewTask(o, n, l) == [IdleTask EXCEPT !.pc = "run", !.op = o, !.starts = n,
                                     !.lazy = l]

\* File names that tools_dir.glob("*.py") can match; each file defines one
\* tool class, registered under the name of its module.
Names == {"a.py", "b.py", "_x.py", "base_tool.py"}

\* file_path.name.startswith("_") (L78), over Names.
StartsWithMarker(f) == f \in {"_x.py"}

\* Mutant: only the marker is tested.
Excluded_MarkerOnly(f) == StartsWithMarker(f)

\* The test at L78.
Excluded(f) == StartsWithMarker(f) \/ f = "base_tool.py"

\* The names that pass the test at L78.
Files == {f \in Names : ~Excluded(f)}
NoPath == ""     \* no iteration of the loop at L123 is between L144 and L147
NoFile == [mtime |-> 0, ok |-> FALSE]   \* the name is not in the directory
NoTool == [ver |-> 0, gen |-> 0]        \* no registry entry
Untracked == 0   \* the path is not a key of self._file_mtimes

\* ToolDiscovery.__init__ (L32-48), on an existing empty directory.
CacheInit ==
    /\ dirExists = TRUE
    /\ fs = [f \in Names |-> NoFile]
    /\ clock = 0
    /\ tools = [f \in Names |-> NoTool]
    /\ file_mtimes = [f \in Names |-> Untracked]
    /\ cache_hits = 0
    /\ cache_misses = 0
    /\ last_scan = 0
    /\ dpc = "idle"
    /\ dtodo = {}
    /\ dcur = NoPath
    /\ ndisc = 0
    /\ fresh = FALSE
    /\ inval = 0
    /\ gname = NoPath
    /\ gres = NoTool

\* ScoutBridgeClient.__init__
NoTime == -1                      \* Python's None for _cache_timestamp
NoCache == [some |-> FALSE, list |-> <<>>]   \* _agent_cache is None
NoAge == -1                       \* no snapshot age was computed
IdleLister == [pc |-> "idle", ret |-> "none", result |-> <<>>, age |-> NoAge]

AgentInit ==
    /\ now = 0
    /\ agent_cache = NoCache
    /\ cache_timestamp = NoTime
    /\ ltask = [t \in Listers |-> IdleLister]
    /\ listing = "none"
    /\ nlist = 0
    /\ nfetch = 0
    /\ nadv = 0

Init ==
    /\ CacheInit
    /\ AgentInit
    /\ process = None
    /\ request_id = 0
    /\ initialized = FALSE
    /\ lockHolder = None
    /\ lockWaiters = <<>>
    /\ alive = {}
    /\ spawned = 0
    /\ inbox = [p \in Pids |-> <<>>]
    /\ outbox = [p \in Pids |-> <<>>]
    /\ task = [t \in Tasks |-> IdleTask]
    /\ issued = <<>>
    /\ ncalls = 0
    /\ lost = {}

\* The session is Ready: the negation of the test at L157.
Ready(S) == S.process # None /\ S.initialized

\* ------------------------------------------------------- coroutine endings
\* The operation of task t returns or raises; res names the exit path.
Finish(S, t, res) ==
    [S EXCEPT !.task[t] = [IdleTask EXCEPT !.op = S.task[t].op,
                                           !.starts = S.task[t].starts,
                                           !.result = res]]

\* asyncio.Lock.release at the exit of "async with self.lock": the first
\* waiter, if any, becomes the holder.
release(S) ==
    IF S.lockWaiters = <<>>
    THEN [S EXCEPT !.lockHolder = None]
    ELSE [S EXCEPT !.lockHolder = Head(S.lockWaiters),
                   !.lockWaiters = Tail(S.lockWaiters)]

\* Mutant: the handler forgets to clear the flag.
InitializedAfterCommError_Mut(S) == S.initialized

\* The value the handler at L199-202 stores in self._initialized.
InitializedAfterCommError(S) == FALSE

\* except Exception (L199-202): any exception raised inside the try block,
\* the ScoutBridgeErrors raised at L179, L186 and L190 included.
communication_error(S, t, res) ==
    release(Finish([S EXCEPT !.initialized = InitializedAfterCommError(S)],
                   t, res))

\* except json.JSONDecodeError (L197-198): re-raised, session untouched.
json_decode_error(S, t) == release(Finish(S, t, "Malformed"))

\* L161-174: allocate the id, frame the request and write it to
\* self.process.stdin; the coroutine then awaits drain().
send(S, t) ==
    LET id == S.request_id + 1
        S1 == [S EXCEPT !.request_id = id, !.task[t].rid = id,
                        !.issued = Append(@, id), !.lockHolder = t]
    IN  IF S1.process = None
        THEN communication_error(S1, t, "NoProcess")
        ELSE [S1 EXCEPT !.inbox[S1.process] =
                            IF S1.process \in S1.alive THEN Append(@, id) ELSE @,
                        !.task[t].pc = "drain",
                        !.task[t].proc = S1.process]

\* Mutant: the request is sent without waiting for the lock.
LockFree_Mut(S) == TRUE

\* The test of asyncio.Lock.acquire: the lock is free.
LockFree(S) == S.lockHolder = None

\* Mutant: the request is written without taking the lock.
acquire_NoLock(S, t) == send(S, t)

\* L160: async with self.lock.
acquire(S, t) ==
    IF LockFree(S)
    THEN send(S, t)
    ELSE [S EXCEPT !.lockWaiters = Append(@, t), !.task[t].pc = "lock_wait"]

\* start() has returned normally to its caller.
start_returned(S, t, res) ==
    IF S.task[t].op = "start" THEN Finish(S, t, res) ELSE acquire(S, t)

\* Mutant: stop() forgets to drop the process handle.
stop_finally_KeepsHandle(S) == [S EXCEPT !.initialized = FALSE]

\* Mutant: stop() also resets the sequence counter.
stop_finally_Mut(S) ==
    [S EXCEPT !.process = None, !.initialized = FALSE, !.request_id = 0]

\* finally clause of stop() (L130-132).
stop_finally(S) == [S EXCEPT !.process = None, !.initialized = FALSE]

\* stop() has ended; err is the exception it raised ("" for none), after
\* the exit path of the caller ("ok" for an explicit stop, the start()
\* failure otherwise).
stop_returned(S, t, after, err) ==
    Finish(S, t, IF err # "" THEN err ELSE after)

\* stop() up to its first suspension (L123-126).  terminate() on a process
\* that has exited raises ProcessLookupError, which passes the finally
\* clause and leaves stop().
stop(S, t, after) ==
    IF S.process = None
    THEN stop_returned(S, t, after, "")
    ELSE IF S.process \in S.alive
         THEN [S EXCEPT !.task[t].pc = "stop_wait",
                        !.task[t].wproc = S.process,
                        !.task[t].after = after]
         ELSE stop_returned(stop_finally(S), t, after, "ProcessLookupError")

\* Mutant: start() spawns without looking at the session.
StartIsNoop_Mut(S) == FALSE

\* The test at L73.
StartIsNoop(S) == S.initialized /\ S.process # None

\* Mutant: the script test sits inside the try block, whose handler drops
\* the session.
start_ChecksInsideTry(S, t, exists) ==
    IF StartIsNoop(S)
    THEN start_returned(S, t, "AlreadyReady")
    ELSE IF ~exists
         THEN Finish(stop_finally(S), t, "ScriptNotFound")
         ELSE [S EXCEPT !.task[t].pc = "spawning"]

\* start() up to its first suspension (L73-89).
start(S, t, exists) ==
    IF StartIsNoop(S)
    THEN start_returned(S, t, "AlreadyReady")
    ELSE IF ~exists
         THEN Finish(S, t, "ScriptNotFound")
         ELSE [S EXCEPT !.task[t].pc = "spawning"]

\* Mutant: the readiness flag is not consulted.
NeedsStart_Mut(S) == S.process = None

\* The test at L157.
NeedsStart(S) == S.process = None \/ ~S.initialized

\* _send_request up to its first suspension (L157-160).
send_request(S, t, exists) ==
    IF NeedsStart(S)
    THEN start([S EXCEPT !.task[t].starts = @ + 1], t, exists)
    ELSE acquire(S, t)

\* L181-195: the reply line f has been read.
handle_response(S, t, f) ==
    IF f.kind = "malformed" THEN json_decode_error(S, t)
    ELSE IF f.kind = "error" THEN communication_error(S, t, "RemoteError")
    ELSE IF f.id # S.task[t].rid THEN communication_error(S, t, "IdMismatch")
    ELSE release(Finish(S, t, "ok"))

\* Frames a worker can write in answer to request r; req is history: the
\* request the frame answers.
Replies(r) ==
    { [kind |-> "result", id |-> r, req |-> r],
      [kind |-> "result", id |-> WrongId, req |-> r],
      [kind |-> "error", id |-> r, req |-> r],
      [kind |-> "malformed", id |-> WrongId, req |-> r] }

\* Number of starts that have passed L76 and not yet created their process.
Spawning == Cardinality({t \in Tasks : task[t].pc = "spawning"})
CanSpawn == spawned + Spawning < MaxProcs

\* ---------------------------------------------------------------- actions
\* A task invokes _send_request (query, invoke_agent, list_agents, ping).
Call(t) ==
    /\ task[t].pc = "idle"
    /\ ncalls < MaxCalls
    /\ NeedsStart(Cur) => CanSpawn
    /\ \E exists \in BOOLEAN :
         Commit(send_request([Cur EXCEPT !.task[t] = NewTask("call", 0, ~Ready(Cur)),
                                         !.ncalls = @ + 1], t, exists))

\* A task invokes start() directly (get_bridge, __aenter__, the tests).
Start(t) ==
    /\ task[t].pc = "idle"
    /\ ~StartIsNoop(Cur) => CanSpawn
    /\ \E exists \in BOOLEAN :
         Commit(start([Cur EXCEPT !.task[t] = NewTask("start", 1, FALSE)], t, exists))

\* A task invokes stop() directly (shutdown_bridge, __aexit__, the tests).
Stop(t) ==
    /\ task[t].pc = "idle"
    /\ Commit(stop([Cur EXCEPT !.task[t] = NewTask("stop", 0, FALSE)], t, "ok"))

\* create_subprocess_exec (L83-89) has completed: the handle is stored and
\* the coroutine waits for the ready line (L92-93); or it has raised and
\* the handler at L104-106 runs stop().
SpawnDone(t) ==
    /\ task[t].pc = "spawning"
    /\ \E ok \in BOOLEAN :
         IF ok
         THEN LET p == spawned + 1
              IN Commit([Cur EXCEPT !.process = p, !.alive = @ \cup {p},
                                    !.spawned = p, !.task[t].proc = p,
                                    !.task[t].pc = "wait_ready"])
         ELSE Commit(stop(Cur, t, "StartFailed"))

\* _wait_for_ready has seen the ready line (L118-119, L95).
ReadyOk(t) ==
    /\ task[t].pc = "wait_ready"
    /\ Commit(start_returned([Cur EXCEPT !.initialized = TRUE], t, "ok"))

\* The 30 s deadline of L93 has passed without a ready line (L98-103).
ReadyTimeout(t) ==
    /\ task[t].pc = "wait_ready"
    /\ Commit(stop(Cur, t, "StartTimeout"))

\* The worker has exited before the ready line (L112-113, L104-106).
ReadyEOF(t) ==
    /\ task[t].pc = "wait_ready"
    /\ task[t].proc \notin alive
    /\ Commit(stop(Cur, t, "StartFailed"))

\* stop(): the process has exited within the grace period (L126, L130-133).
StopWaitDone(t) ==
    /\ task[t].pc = "stop_wait"
    /\ task[t].wproc \notin alive
    /\ Commit(stop_returned(stop_finally(Cur), t, task[t].after, ""))

\* stop(): the 5 s grace period has passed (L127-133).  kill() is sent to
\* whatever self.process is by now.
StopWaitTimeout(t) ==
    /\ task[t].pc = "stop_wait"
    /\ task[t].wproc \in alive
    /\ IF process = None
       THEN Commit(stop_returned(stop_finally(Cur), t, task[t].after,
                                 "AttributeError"))
       ELSE IF process \notin alive
       THEN Commit(stop_returned(stop_finally(Cur), t, task[t].after,
                                 "ProcessLookupError"))
       ELSE Commit(stop_returned(
                stop_finally([Cur EXCEPT !.alive = @ \ {process},
                                         !.inbox[process] = <<>>]),
                t, task[t].after, ""))

\* A suspended acquirer has been handed the lock and runs L161-174.
LockGranted(t) ==
    /\ task[t].pc = "lock_wait"
    /\ lockHolder = t
    /\ Commit(send(Cur, t))

\* drain() (L174) has raised on the pipe of an exited worker: asyncio has
\* seen the stdin pipe lost, and remembers it.
DrainFailed(t) ==
    /\ task[t].pc = "drain"
    /\ task[t].proc \notin alive
    /\ Commit(communication_error([Cur EXCEPT !.lost = @ \cup {task[t].proc}],
                                  t, "WriteFailed"))

\* drain() (L174) has returned, the pipe not being known as lost;
\* readline() is called on the stdout of whatever self.process is by now
\* (L177).
DrainDone(t) ==
    /\ task[t].pc = "drain"
    /\ task[t].proc \notin lost
    /\ IF process = None
       THEN Commit(communication_error(Cur, t, "NoProcess"))
       ELSE Commit([Cur EXCEPT !.task[t].pc = "read",
                               !.task[t].proc = process])

\* readline() (L177) has returned a reply line.
ReadReply(t) ==
    /\ task[t].pc = "read"
    /\ outbox[task[t].proc] # <<>>
    /\ Commit(handle_response(
                [Cur EXCEPT !.outbox[task[t].proc] = Tail(@)],
                t, Head(outbox[task[t].proc])))

\* readline() (L177) has returned the empty line: end of stream (L178-179).
ReadClosed(t) ==
    /\ task[t].pc = "read"
    /\ outbox[task[t].proc] = <<>>
    /\ task[t].proc \notin alive
    /\ Commit(communication_error(Cur, t, "Closed"))

\* The deadline of a call passes while the coroutine is suspended in
\* readline() (L177).  The timeout is only forwarded to the worker as a
\* request parameter (L231); no wait_for guards the read, so the coroutine
\* stays suspended and keeps the lock.
DeadlineExpires(t) ==
    /\ task[t].pc = "read"
    /\ ~task[t].expired
    /\ Commit([Cur EXCEPT !.task[t].expired = TRUE])

\* A worker answers the oldest request on its stdin.
WorkerReply(p) ==
    /\ p \in alive
    /\ inbox[p] # <<>>
    /\ \E f \in Replies(Head(inbox[p])) :
         /\ inbox' = [inbox EXCEPT ![p] = Tail(@)]
         /\ outbox' = [outbox EXCEPT ![p] = Append(@, f)]
    /\ UNCHANGED <<process, request_id, initialized, lockHolder, lockWaiters,
                   alive, spawned, task, issued, ncalls, lost>>
    /\ UNCHANGED cacheVars
    /\ UNCHANGED agentVars

\* A worker exits (crash, or SIGTERM honoured).
WorkerExit(p) ==
    /\ p \in alive
    /\ alive' = alive \ {p}
    /\ inbox' = [inbox EXCEPT ![p] = <<>>]
    /\ UNCHANGED <<process, request_id, initialized, lockHolder, lockWaiters,
                   spawned, outbox, task, issued, ncalls, lost>>
    /\ UNCHANGED cacheVars
    /\ UNCHANGED agentVars

Next ==
    \/ \E t \in Tasks : Call(t)
    \/ \E t \in Tasks : Start(t)
    \/ \E t \in Tasks : Stop(t)
    \/ \E t \in Tasks : SpawnDone(t)
    \/ \E t \in Tasks : ReadyOk(t)
    \/ \E t \in Tasks : ReadyTimeout(t)
    \/ \E t \in Tasks : ReadyEOF(t)
    \/ \E t \in Tasks : StopWaitDone(t)
    \/ \E t \in Tasks : StopWaitTimeout(t)
    \/ \E t \in Tasks : LockGranted(t)
    \/ \E t \in Tasks : DrainFailed(t)
    \/ \E t \in Tasks : DrainDone(t)
    \/ \E t \in Tasks : ReadReply(t)
    \/ \E t \in Tasks : ReadClosed(t)
    \/ \E t \in Tasks : DeadlineExpires(t)
    \/ \E p \in Pids : WorkerReply(p)
    \/ \E p \in Pids : WorkerExit(p)

Spec == Init /\ [][Next]_vars

TypeOK ==
    /\ process \in Pids \cup {None}
    /\ request_id \in 0..MaxCalls
    /\ initialized \in BOOLEAN
    /\ lockHolder \in Tasks \cup {None}
    /\ alive \subseteq 1..spawned
    /\ spawned \in 0..MaxProcs
    /\ ncalls \in 0..MaxCalls
    /\ lost \subseteq (1..spawned) \ alive

\* ===================================================== capability cache
\* The state of the cache as one record, as Cur for the bridge.
CacheCur == [dirExists |-> dirExists, fs |-> fs, clock |-> clock,
             tools |-> tools, file_mtimes |-> file_mtimes,
             cache_hits |-> cache_hits, cache_misses |-> cache_misses,
             last_scan |-> last_scan, dpc |-> dpc, dtodo |-> dtodo,
             dcur |-> dcur, ndisc |-> ndisc, fresh |-> fresh, inval |-> inval,
             gname |-> gname, gres |-> gres]

\* The cache state after a step is K.
CacheSet(K) ==
    /\ dirExists' = K.dirExists
    /\ fs' = K.fs
    /\ clock' = K.clock
    /\ tools' = K.tools
    /\ file_mtimes' = K.file_mtimes
    /\ cache_hits' = K.cache_hits
    /\ cache_misses' = K.cache_misses
    /\ last_scan' = K.last_scan
    /\ dpc' = K.dpc
    /\ dtodo' = K.dtodo
    /\ dcur' = K.dcur
    /\ ndisc' = K.ndisc
    /\ fresh' = K.fresh
    /\ inval' = K.inval
    /\ gname' = K.gname
    /\ gres' = K.gres

CacheCommit(K) ==
    /\ CacheSet(K)
    /\ UNCHANGED bridgeVars
    /\ UNCHANGED agentVars

\* L77-81: current_files, the names the scan keeps.
current_files(K) == {f \in Names : K.fs[f] # NoFile /\ ~Excluded(f)}

\* Mutant: every file is taken as modified.
IsModified_Mut(recorded, current) == TRUE

\* L92: the recorded mtime differs from the current one.
IsModified(recorded, current) == recorded # current

\* L83-95: modified_files, the new and the modified files.
modified_files(K) ==
    {f \in current_files(K) :
        \/ K.file_mtimes[f] = Untracked
        \/ IsModified(K.file_mtimes[f], K.fs[f].mtime)}

\* L102: deleted_files.
deleted_files(K) ==
    {f \in Names : K.file_mtimes[f] # Untracked} \ current_files(K)

\* Mutant: the tools of every module are removed.
remove_tools_from_module_All(K, f) ==
    [K EXCEPT !.tools = [g \in Names |-> NoTool]]

\* _remove_tools_from_module (L157-167).
remove_tools_from_module(K, f) == [K EXCEPT !.tools[f] = NoTool]

\* L105-110 for one deleted file: the entry is deleted from _file_mtimes
\* (L106) and the module name is then looked up in _file_mtimes (L108),
\* where it is no longer found, so L110 is not reached.
forget_deleted(K, f) ==
    LET K1 == [K EXCEPT !.file_mtimes[f] = Untracked]
    IN  IF K1.file_mtimes[f] # Untracked
        THEN remove_tools_from_module(K1, f)
        ELSE K1

RECURSIVE forget_all(_, _)
\* L105-110: the loop over deleted_files.
forget_all(K, D) ==
    IF D = {} THEN K
    ELSE LET f == CHOOSE x \in D : TRUE
         IN forget_all(forget_deleted(K, f), D \ {f})

\* Mutant: force_reload is not honoured when choosing the files.
files_to_process_NoForce(K, force_reload) == modified_files(K)

\* Mutant: every current file is reloaded on every miss.
files_to_process_Mut(K, force_reload) == current_files(K)

\* L121: files_to_process.
files_to_process(K, force_reload) ==
    IF force_reload THEN current_files(K) ELSE modified_files(K)

\* L154-155: the loop at L123 has ended.
finish_if_done(K) ==
    IF K.dtodo = {}
    THEN [K EXCEPT !.last_scan = K.ndisc, !.dpc = "idle", !.dcur = NoPath]
    ELSE [K EXCEPT !.dpc = "load", !.dcur = NoPath]

\* Mutant: a hit also records a scan duration.
cache_hit_Mut(K) == [K EXCEPT !.cache_hits = @ + 1, !.last_scan = K.ndisc]

\* L113-115: the cache hit.
cache_hit(K) == [K EXCEPT !.cache_hits = @ + 1]

\* discover_tools up to the loop at L123 (L68-121).
discover_tools(K, force_reload) ==
    IF ~K.dirExists THEN K
    ELSE LET needs_reload == \/ force_reload
                             \/ modified_files(K) # {}
                             \/ deleted_files(K) # {}
             todo == files_to_process(K, force_reload)
             K1 == forget_all(K, deleted_files(K))
         IN  IF ~needs_reload /\ K1.tools # [f \in Names |-> NoTool]
             THEN cache_hit(K1)
             ELSE finish_if_done([K1 EXCEPT !.cache_misses = @ + 1,
                                            !.dtodo = todo])

\* L124-144 for file f: the old tools of the module are removed, then the
\* module is imported and its tool instantiated; an exception (a missing or
\* broken file) goes to L149-152.
load_file(K, f) ==
    LET K1 == remove_tools_from_module(K, f)
    IN  IF K1.fs[f] # NoFile /\ K1.fs[f].ok
        THEN [K1 EXCEPT !.tools[f] = [ver |-> K1.fs[f].mtime, gen |-> K1.ndisc],
                        !.dpc = "stat", !.dcur = f]
        ELSE finish_if_done([K1 EXCEPT !.dtodo = @ \ {f}])

\* L147 for the file just loaded: stat() it again and record the result;
\* OSError (the file is gone) goes to L149-152.
stat_file(K) ==
    LET f == K.dcur
        K1 == IF K.fs[f] # NoFile
              THEN [K EXCEPT !.file_mtimes[f] = K.fs[f].mtime]
              ELSE K
    IN  finish_if_done([K1 EXCEPT !.dtodo = @ \ {f}])

\* Mutant: the tracked mtimes survive invalidate_cache.
invalidate_cache_Mut(K) ==
    [K EXCEPT !.tools = [f \in Names |-> NoTool],
              !.cache_hits = 0, !.cache_misses = 0, !.last_scan = 0]

\* invalidate_cache (L197-207).
invalidate_cache(K) ==
    [K EXCEPT !.file_mtimes = [f \in Names |-> Untracked],
              !.tools = [f \in Names |-> NoTool],
              !.cache_hits = 0, !.cache_misses = 0, !.last_scan = 0]

\* History kept when discover_tools is entered (L50).
begin_discover(K) ==
    [K EXCEPT !.ndisc = @ + 1, !.fresh = TRUE,
              !.inval = IF @ = 1 THEN 2 ELSE 0]

\* Mutant: get_tool runs discover_tools on every call.
NeedsDiscover_Mut(K) == TRUE

\* L175: not self._tools.
NeedsDiscover(K) == K.tools = [f \in Names |-> NoTool]

\* L177, reached once the discover_tools called at L176 (if any) is back:
\* self._tools.get(name).
get_tool_return(K) ==
    IF K.gname # NoPath /\ K.dpc = "idle"
    THEN [K EXCEPT !.gres = K.tools[K.gname], !.gname = NoPath]
    ELSE K

\* get_tool (L169-177).
get_tool(K, name) ==
    LET K1 == [K EXCEPT !.gname = name]
    IN  get_tool_return(IF NeedsDiscover(K1)
                        THEN discover_tools(begin_discover(K1), FALSE)
                        ELSE K1)

\* ---------------------------------------------------------- cache actions
\* discover_tools(force_reload) is invoked and runs to its first file.
Discover(force_reload) ==
    /\ dpc = "idle"
    /\ ndisc < MaxDiscover
    /\ CacheCommit(discover_tools(begin_discover(CacheCur), force_reload))

\* One iteration of the loop at L123 up to L144.
LoadFile(f) ==
    /\ dpc = "load"
    /\ f \in dtodo
    /\ CacheCommit(get_tool_return(load_file(CacheCur, f)))

\* The same iteration at L147.
StatFile ==
    /\ dpc = "stat"
    /\ CacheCommit(get_tool_return(stat_file(CacheCur)))

\* get_tool(name) is invoked.
GetTool(name) ==
    /\ dpc = "idle"
    /\ NeedsDiscover(CacheCur) => ndisc < MaxDiscover
    /\ CacheCommit(get_tool(CacheCur, name))

\* invalidate_cache() is invoked; it cannot run inside discover_tools.
Invalidate ==
    /\ dpc = "idle"
    /\ CacheCommit(invalidate_cache([CacheCur EXCEPT !.fresh = FALSE,
                                                     !.inval = 1]))

\* Another process creates or rewrites (or touches) file f.
WriteFile(f) ==
    /\ dirExists
    /\ clock < MaxWrites
    /\ \E ok \in BOOLEAN :
         CacheCommit([CacheCur EXCEPT !.clock = @ + 1,
                                      !.fs[f] = [mtime |-> clock + 1, ok |-> ok],
                                      !.fresh = FALSE])

\* Another process deletes file f.
DeleteFile(f) ==
    /\ fs[f] # NoFile
    /\ CacheCommit([CacheCur EXCEPT !.fs[f] = NoFile, !.fresh = FALSE])

\* Another process removes the (empty) directory.
RemoveDir ==
    /\ dirExists
    /\ \A f \in Names : fs[f] = NoFile
    /\ CacheCommit([CacheCur EXCEPT !.dirExists = FALSE, !.fresh = FALSE])

\* Another process creates the directory.
CreateDir ==
    /\ ~dirExists
    /\ CacheCommit([CacheCur EXCEPT !.dirExists = TRUE, !.fresh = FALSE])

NextCache ==
    \/ \E force_reload \in BOOLEAN : Discover(force_reload)
    \/ \E f \in Names : LoadFile(f)
    \/ StatFile
    \/ \E name \in Files : GetTool(name)
    \/ Invalidate
    \/ \E f \in Names : WriteFile(f)
    \/ \E f \in Names : DeleteFile(f)
    \/ RemoveDir
    \/ CreateDir

SpecCache == Init /\ [][NextCache]_vars

CacheTypeOK ==
    /\ dirExists \in BOOLEAN
    /\ clock \in 0..MaxWrites
    /\ \A f \in Names : fs[f].mtime \in 0..clock
    /\ \A f \in Names : file_mtimes[f] \in 0..clock
    /\ cache_hits + cache_misses <= ndisc
    /\ ndisc \in 0..MaxDiscover
    /\ dpc \in {"idle", "load", "stat"}
    /\ dtodo \subseteq Names
    /\ (dpc = "stat") = (dcur # NoPath)
    /\ gname \in Files \cup {NoPath}
    /\ gname # NoPath => dpc # "idle"

\* ========================================================= agent listing
\* The state of the agent listing as one record.
AgentCur == [now |-> now, agent_cache |-> agent_cache,
             cache_timestamp |-> cache_timestamp, ltask |-> ltask,
             listing |-> listing, nlist |-> nlist, nfetch |-> nfetch,
             nadv |-> nadv]

\* The agent listing state after a step is A.
AgentSet(A) ==
    /\ now' = A.now
    /\ agent_cache' = A.agent_cache
    /\ cache_timestamp' = A.cache_timestamp
    /\ ltask' = A.ltask
    /\ listing' = A.listing
    /\ nlist' = A.nlist
    /\ nfetch' = A.nfetch
    /\ nadv' = A.nadv

AgentCommit(A) ==
    /\ AgentSet(A)
    /\ UNCHANGED bridgeVars
    /\ UNCHANGED cacheVars

\* What the worker may answer to agent.list: its global and its project
\* descriptors (a missing key reads as the empty list, L73 and L75).
Listings ==
    { [global |-> <<"g1">>, project |-> <<"p1">>],
      [global |-> <<"g1", "g2">>, project |-> <<>>],
      [global |-> <<>>, project |-> <<"p1", "p2">>],
      [global |-> <<>>, project |-> <<>>] }

\* Mutant: a snapshot of age CACHE_TTL is still served.
WithinTTL_Mut(age) == age <= CACHE_TTL

\* L46: the comparison of the snapshot's age with CACHE_TTL.
WithinTTL(age) == age < CACHE_TTL

\* _is_cache_valid (L42-46).
is_cache_valid(A) ==
    IF ~A.agent_cache.some \/ A.cache_timestamp = NoTime
    THEN FALSE
    ELSE WithinTTL(A.now - A.cache_timestamp)

\* Mutant: the project agents are put before the global ones.
combine_Mut(data) == data.project \o data.global

\* L70-76: agents, the global descriptors followed by the project ones.
combine(data) == data.global \o data.project

\* L46: time.time() - self._cache_timestamp as the call computes it.
snapshot_age(A) ==
    IF ~A.agent_cache.some \/ A.cache_timestamp = NoTime
    THEN NoAge
    ELSE A.now - A.cache_timestamp

\* _list_agents_async up to its first suspension (L60-68) in coroutine t.
list_agents_async(A, t) ==
    IF is_cache_valid(A)
    THEN [A EXCEPT !.ltask[t] = [pc |-> "idle", ret |-> "cached",
                                 result |-> A.agent_cache.list,
                                 age |-> snapshot_age(A)]]
    ELSE [A EXCEPT !.ltask[t] = [pc |-> "fetch", ret |-> "none",
                                 result |-> <<>>, age |-> snapshot_age(A)],
                   !.nfetch = @ + 1]

\* L68-81: bridge.list_agents() returned data.
fetch_returned(A, t, data) ==
    LET agents == combine(data)
    IN  [A EXCEPT !.agent_cache = [some |-> TRUE, list |-> agents],
                  !.cache_timestamp = A.now,
                  !.ltask[t] = [@ EXCEPT !.pc = "idle", !.ret = "fetched",
                                           !.result = agents]]

\* L83-88: get_bridge() or bridge.list_agents() raised.
fetch_raised(A, t) ==
    [A EXCEPT !.ltask[t] = [@ EXCEPT !.pc = "idle", !.ret = "failed",
                                       !.result = <<>>]]

\* AgentToolGenerator.invalidate_cache (L48-51).
invalidate_agents(A) ==
    [A EXCEPT !.agent_cache = NoCache, !.cache_timestamp = NoTime]

\* _list_agents (L96-106): what it returns, by whether the event loop of
\* the caller is running.
list_agents_returns(loop_running) ==
    IF loop_running THEN "Task" ELSE "list"

\* discover_agent_tools (L112-126): iterating a Task yields the Task itself,
\* and agent.get (L118) raises AttributeError on it.
discover_agent_tools(agents) ==
    IF agents = "Task" THEN "AttributeError" ELSE "tools"

\* --------------------------------------------------------- agent actions
\* A coroutine awaits _list_agents_async().
ListAgents(t) ==
    /\ ltask[t].pc = "idle"
    /\ nlist < MaxLists
    /\ AgentCommit(list_agents_async([AgentCur EXCEPT !.nlist = @ + 1], t))

\* The task made at L101 gets to run.
RunCreated(t) ==
    /\ ltask[t].pc = "created"
    /\ AgentCommit(list_agents_async(AgentCur, t))

\* The bridge answers the agent.list request of coroutine t.
FetchReturns(t) ==
    /\ ltask[t].pc = "fetch"
    /\ \E data \in Listings : AgentCommit(fetch_returned(AgentCur, t, data))

\* The bridge raises for coroutine t.
FetchRaises(t) ==
    /\ ltask[t].pc = "fetch"
    /\ AgentCommit(fetch_raised(AgentCur, t))

\* Time passes.
Advance ==
    /\ nadv < MaxAdvance
    /\ \E d \in {1, CACHE_TTL - 1, CACHE_TTL} :
          AgentCommit([AgentCur EXCEPT !.now = @ + d, !.nadv = @ + 1])

\* invalidate_cache() of the generator is invoked.
InvalidateAgents ==
    /\ agent_cache.some
    /\ AgentCommit(invalidate_agents(AgentCur))

\* server.py handle_list_tools (L64-76), a coroutine of the running loop:
\* discover_tools() runs to its end, then discover_agent_tools() makes a
\* task for _list_agents_async and iterates it.
HandleListTools(t) ==
    /\ ltask[t].pc = "idle"
    /\ nlist < MaxLists
    /\ dpc = "idle"
    /\ ndisc < MaxDiscover
    /\ LET K == discover_tools(begin_discover(CacheCur), FALSE)
           agents == list_agents_returns(TRUE)
       IN  /\ K.dpc = "idle"
           /\ CacheSet(K)
           /\ AgentSet([AgentCur EXCEPT
                  !.nlist = @ + 1,
                  !.ltask[t] = [IdleLister EXCEPT !.pc = "created"],
                  !.listing = discover_agent_tools(agents)])
    /\ UNCHANGED bridgeVars

NextAgents ==
    \/ \E t \in Listers : ListAgents(t)
    \/ \E t \in Listers : RunCreated(t)
    \/ \E t \in Listers : FetchReturns(t)
    \/ \E t \in Listers : FetchRaises(t)
    \/ Advance
    \/ InvalidateAgents
    \/ \E t \in Listers : HandleListTools(t)

SpecAgents == Init /\ [][NextAgents]_vars

AgentTypeOK ==
    /\ now >= 0
    /\ cache_timestamp \in {NoTime} \cup 0..now
    /\ agent_cache.some = (cache_timestamp # NoTime)
    /\ \A t \in Listers : ltask[t].pc \in {"idle", "created", "fetch"}
    /\ listing \in {"none", "tools", "AttributeError"}
    /\ nlist \in 0..MaxLists
    /\ nfetch <= nlist
    /\ nadv \in 0..MaxAdvance

\* ------------------------------------------------------------ properties
Failed(t, res) == task[t].pc # "idle" /\ task'[t].pc = "idle"
                  /\ task'[t].result = res

\* C1: at most one worker process spawned by the bridge is alive at any
\* time, whatever the interleaving of calls.
C1_SingleWorker == Cardinality(alive) <= 1

\* C2: a reply whose id differs from the outstanding request's id fails the
\* call and leaves the session as it was: a Ready session is still Ready,
\* with the same process, afterwards.
C2_MismatchKeepsReady ==
    [][\A t \in Tasks :
         (task[t].pc = "read" /\ Failed(t, "IdMismatch"))
         => (initialized' = initialized /\ process' = process)]_vars

\* C3: a reply carrying an error object fails the call and keeps the session
\* alive: a Ready session stays Ready, with the same process.
C3_RemoteErrorKeepsReady ==
    [][\A t \in Tasks :
         (task[t].pc = "read" /\ Failed(t, "RemoteError"))
         => (initialized' = initialized /\ process' = process)]_vars

\* The call of task t begins in this step.
CallBegins(t) == task[t].pc = "idle" /\ task'[t] # task[t]
                 /\ task'[t].op = "call" /\ ncalls' = ncalls + 1

\* C4: when the write fails or the reply stream is closed, the call fails
\* and the session is marked not-ready; a call that begins while the session
\* is marked not-ready runs start() before it sends anything.
C4_TransportFailureInvalidates ==
    /\ [][\A t \in Tasks :
            (\/ Failed(t, "WriteFailed")
             \/ Failed(t, "Closed")
             \/ Failed(t, "NoProcess"))
            => ~initialized']_vars
    /\ [][\A t \in Tasks :
            (CallBegins(t) /\ ~initialized)
            => /\ request_id' = request_id
               /\ inbox' = inbox
               /\ \/ task'[t].pc = "spawning" /\ task'[t].starts = 1
                  \/ task'[t].pc = "idle" /\ task'[t].result = "ScriptNotFound"]_vars

\* A call has failed on a closed stream, the session is marked not-ready
\* with its stale handle, and another call is restarting the worker.
C4_Witness ==
    \E t, u \in Tasks :
        /\ task[t].op = "call" /\ task[t].result = "Closed"
        /\ ~initialized /\ process # None
        /\ task[u].op = "call" /\ task[u].pc = "spawning"

\* C5: a reply frame that cannot be parsed fails the call and marks the
\* session not-ready.
C5_MalformedInvalidates ==
    [][\A t \in Tasks :
         (task[t].pc = "read" /\ Failed(t, "Malformed")) => ~initialized']_vars

\* Tasks between the write of their request and the end of their read.
InFlight == {t \in Tasks : task[t].pc \in {"drain", "read"}}

\* C6: at most one request is in flight: the task that has written its
\* request and not yet read its reply holds the lock, and it is alone.
C6_OneInFlight ==
    /\ Cardinality(InFlight) <= 1
    /\ \A t \in InFlight : lockHolder = t

\* One call waits for its reply while another waits for the lock.
C6_Witness ==
    \E t, u \in Tasks : task[t].pc = "read" /\ task[u].pc = "lock_wait"

\* C7: the ids assigned are 1, 2, 3, ... in this order: each is one more
\* than the previous one and none is assigned twice, across failed calls,
\* stop() and restarts.
C7_SequenceIds ==
    /\ \A i \in DOMAIN issued : issued[i] = i
    /\ request_id = Len(issued)

\* Two ids have been assigned, with a stop() and a restart between them.
C7_Witness ==
    /\ Len(issued) = 2
    /\ spawned = 2
    /\ \E t \in Tasks : task[t].op = "stop" /\ task[t].result = "ok"

C9_StartReadyNoop ==
    [][\A t \in Tasks :
         (/\ task[t].pc = "idle" /\ task'[t] # task[t]
          /\ task'[t].op = "start"
          /\ process # None /\ initialized)
         => /\ task'[t].pc = "idle"
            /\ UNCHANGED <<process, initialized, request_id, alive, spawned>>]_vars

\* A start() has returned through the test at L73 and the session is Ready.
C9_Witness ==
    /\ \E t \in Tasks : task[t].result = "AlreadyReady"
    /\ process # None /\ initialized

\* C10: when start() fails on the startup deadline, the process it spawned
\* is terminated and the session has no process handle and is not Ready.
C10_TimeoutTerminates ==
    [][\A t \in Tasks :
         Failed(t, "StartTimeout")
         => /\ task[t].proc \notin alive'
            /\ process' = None
            /\ ~initialized']_vars

\* The explicit stop() of task t returns or raises in this step.
StopEnds(t) ==
    /\ task'[t].pc = "idle"
    /\ task'[t].op = "stop"
    /\ \/ task[t].pc = "stop_wait"
       \/ task[t].pc = "idle" /\ Stop(t)

\* C11: stop() ends with the session cleared: no process handle, and the
\* readiness flag reset whenever there was a handle to stop, whether the
\* worker exits in time or is killed; stop() on a session without a handle
\* changes nothing, so a second stop() leaves the state of the first.
C11_StopClears ==
    /\ [][\A t \in Tasks :
            StopEnds(t)
            => /\ process' = None
               /\ (process # None \/ task[t].pc = "stop_wait") => ~initialized']_vars
    /\ [][\A t \in Tasks :
            (task[t].pc = "idle" /\ process = None /\ Stop(t))
            => UNCHANGED <<process, initialized, request_id, lockHolder,
                           lockWaiters, alive, spawned, inbox, outbox>>]_vars

\* An explicit stop() has returned on a session that had spawned a worker:
\* the worker is gone and the session is cleared.
C11_Witness ==
    /\ \E t \in Tasks : task[t].op = "stop" /\ task[t].result = "ok"
    /\ spawned >= 1 /\ alive = {}
    /\ process = None /\ ~initialized

\* C12: when the deadline of a call passes while it waits for the reply, the
\* wait is aborted in that step with a timeout reported to the caller, and
\* the session is left as it was.
C12_DeadlineAbortsWait ==
    [][\A t \in Tasks :
         DeadlineExpires(t)
         => /\ task'[t].pc = "idle"
            /\ task'[t].result = "Timeout"
            /\ initialized' = initialized
            /\ process' = process]_vars

\* ------------------------------------------------ capability cache claims
\* The version a cold rebuild (invalidate_cache then discover_tools) of the
\* present directory contents gives file f: its mtime if f loads, else none.
ColdRebuild(f) == IF fs[f] # NoFile /\ fs[f].ok THEN fs[f].mtime ELSE 0

\* discover_tools has returned and nothing has touched the directory since
\* it was invoked.
Returned == dpc = "idle" /\ ndisc > 0 /\ fresh /\ dirExists

\* C13: after discover() returns, the registry equals what a cold full
\* rebuild of the same directory contents would produce.
C13_MatchesColdRebuild ==
    Returned => \A f \in Files : tools[f].ver = ColdRebuild(f)

\* A step that is an invocation of discover_tools.
DiscoverStep == ndisc' = ndisc + 1

\* C14: a discover() that finds a tracked file deleted leaves no registry
\* entry built from it, and keeps the entries of the remaining files.
C14_DeletedEvicted ==
    [][DiscoverStep =>
         \A f \in Files :
            /\ (file_mtimes[f] # Untracked /\ fs[f] = NoFile)
                  => tools'[f] = NoTool
            /\ (file_mtimes[f] # Untracked /\ fs[f] # NoFile
                  /\ file_mtimes[f] = fs[f].mtime)
                  => tools'[f] = tools[f]]_vars

\* File f is tracked, still listed, and its mtime is the recorded one.
Unchanged(f) ==
    /\ file_mtimes[f] # Untracked
    /\ fs[f] # NoFile
    /\ file_mtimes[f] = fs[f].mtime

\* File b is the one tracked file whose mtime has changed; nothing was
\* added or deleted.
OnlyChanged(b) ==
    /\ dirExists
    /\ file_mtimes[b] # Untracked
    /\ fs[b] # NoFile
    /\ file_mtimes[b] # fs[b].mtime
    /\ \A f \in Files \ {b} : Unchanged(f)

\* C15: when exactly one tracked file's mtime has changed, the next
\* discover() without force_reload is counted as a miss and rebuilds exactly
\* that file; the entries of the other files stay the same objects.
C15_OnlyChangedRebuilt ==
    /\ [][\A b \in Files : (OnlyChanged(b) /\ Discover(FALSE))
            => /\ cache_misses' = cache_misses + 1
               /\ cache_hits' = cache_hits
               /\ dpc' = "load"
               /\ dtodo' = {b}
               /\ tools' = tools]_vars
    /\ [][\A f \in Files : (dpc # "idle" /\ f \notin dtodo)
            => tools'[f] = tools[f]]_vars
    /\ [][\A f \in Files : (LoadFile(f) /\ fs[f] # NoFile /\ fs[f].ok)
            => tools'[f] = [ver |-> fs[f].mtime, gen |-> ndisc]]_vars

C15_Witness ==
    \E a, b \in Files :
       /\ a # b
       /\ dpc = "stat" /\ dcur = b /\ dtodo = {b}
       /\ cache_misses = 2
       /\ tools[b].gen = ndisc
       /\ file_mtimes[b] # Untracked /\ file_mtimes[b] # tools[b].ver
       /\ tools[a] # NoTool /\ tools[a].gen < ndisc
       /\ Unchanged(a)

\* The registry holds no tool.
RegistryEmpty == tools = [f \in Names |-> NoTool]

\* No listed file fails to load (L149-152 is not taken for any of them).
AllLoadable == \A f \in Files : fs[f] # NoFile => fs[f].ok

\* The effect the claim gives a repeated discover(): same registry, one
\* more hit, no more miss.
CountedAsHit ==
    /\ tools' = tools
    /\ cache_hits' = cache_hits + 1
    /\ cache_misses' = cache_misses

DirEmpty == dirExists /\ \A f \in Files : fs[f] = NoFile

\* C17: discover() on an existing but empty directory returns an empty
\* registry, and a repeated discover() on it records no further miss.
C17_EmptyDirNoMiss ==
    [][(DirEmpty /\ DiscoverStep)
          => /\ RegistryEmpty'
             /\ Returned => cache_misses' = cache_misses]_vars

\* Loading file f raises (L149-152): it is gone or its import fails.
LoadFails(f) == fs[f] = NoFile \/ ~fs[f].ok

\* C18: a file that fails to rebuild is skipped, the pass goes on with the
\* other files, and the entries built from it earlier stay in the registry.
C18_FailedKeepsOld ==
    [][\A f \in Files : (LoadFile(f) /\ LoadFails(f))
          => /\ dtodo' = dtodo \ {f}
             /\ tools'[f] = tools[f]]_vars

\* C19: for every tracked file the recorded mtime is the mtime of the file
\* state that was loaded to build the cached object (outside the window
\* between L144 and L147 of the file being processed).
C19_MtimeOfLoaded ==
    \A f \in Files :
        (file_mtimes[f] # Untracked /\ tools[f] # NoTool
            /\ ~(dpc = "stat" /\ dcur = f))
        => file_mtimes[f] = tools[f].ver

\* The state invalidate_cache leaves: nothing cached, nothing tracked,
\* counters at zero.
Cleared ==
    /\ RegistryEmpty
    /\ file_mtimes = [f \in Names |-> Untracked]
    /\ cache_hits = 0
    /\ cache_misses = 0

\* The next discover() after invalidate() is a miss that processes every
\* current source file.
ColdMiss ==
    /\ cache_misses' = 1
    /\ cache_hits' = 0
    /\ dtodo' = current_files(CacheCur)

\* C20 as stated: invalidate() clears registry, tracking state and
\* counters, and the next discover() is a miss rebuilding every current file.
C20_Original ==
    /\ [][Invalidate => Cleared']_vars
    /\ [][(inval = 1 /\ DiscoverStep) => ColdMiss]_vars

\* C20 amended: the same, provided the source directory exists at the next
\* discover(); undisturbed, that pass leaves exactly the cold rebuild, every
\* entry built by it.
C20_InvalidateColdRebuild ==
    /\ [][Invalidate => Cleared']_vars
    /\ [][(inval = 1 /\ dirExists /\ DiscoverStep) => ColdMiss]_vars
    /\ []((Returned /\ inval = 2)
            => \A f \in Files :
                  /\ tools[f].ver = ColdRebuild(f)
                  /\ tools[f] # NoTool => tools[f].gen = ndisc)

C20_Witness ==
    /\ Returned /\ inval = 2
    /\ ndisc >= 2
    /\ cache_misses = 1 /\ cache_hits = 0
    /\ \E f \in Files : tools[f] # NoTool /\ tools[f].gen = ndisc

\* The effect the claim gives discover(force_reload = TRUE): one more miss,
\* no more hit, every current file selected for rebuilding.
ForcedMiss ==
    /\ cache_misses' = cache_misses + 1
    /\ cache_hits' = cache_hits
    /\ dtodo' = current_files(CacheCur)

\* C21 as stated: discover(force_reload = TRUE) rebuilds every current file
\* even when nothing changed, adds exactly one miss and no hit.
C21_Original ==
    [][Discover(TRUE) => ForcedMiss]_vars

\* C21 amended: this holds when the source directory exists; each selected
\* file that loads is then given a newly built entry.
C21_ForceRebuildsAll ==
    /\ [][(dirExists /\ Discover(TRUE)) => ForcedMiss]_vars
    /\ [][\A f \in Files : (LoadFile(f) /\ ~LoadFails(f))
            => /\ tools'[f].gen = ndisc
               /\ tools'[f] # tools[f]]_vars

\* One file written once, a miss that loaded it, a hit, and a third pass
\* that rebuilt it although nothing had changed.
C21_Witness ==
    /\ dpc = "idle" /\ ndisc = 3
    /\ clock = 1
    /\ cache_hits = 1 /\ cache_misses = 2
    /\ \E f \in Files : Unchanged(f) /\ tools[f].gen = 3

\* File f is listed and has never been recorded.
NewFile(f) == fs[f] # NoFile /\ file_mtimes[f] = Untracked

C23_GetDiscoversIffEmpty ==
    /\ [][\A n \in Files : GetTool(n) => (DiscoverStep <=> RegistryEmpty)]_vars
    /\ [][\A n \in Files :
            ((GetTool(n) \/ gname = n) /\ gname' = NoPath)
               => gres' = tools'[n]]_vars

\* A lookup that found the registry empty is inside the pass it started,
\* which has just built the entry it is looking for.
C23_Witness ==
    /\ gname # NoPath
    /\ dpc = "stat" /\ dcur = gname
    /\ cache_misses = 1 /\ cache_hits = 0
    /\ tools[gname] # NoTool /\ tools[gname].gen = ndisc

\* ---------------------------------------------------- agent listing claims
\* Coroutine t evaluates L60 in this step.
ListBegins(t) == ListAgents(t) \/ RunCreated(t)

\* A snapshot is stored and its age is less than CACHE_TTL.
SnapshotYoung ==
    /\ agent_cache.some
    /\ now < cache_timestamp + CACHE_TTL

\* A snapshot is stored and its age is CACHE_TTL or more.
SnapshotOld ==
    /\ agent_cache.some
    /\ now >= cache_timestamp + CACHE_TTL

\* C24: a call before T+TTL returns the snapshot taken at T without a
\* fetch, a call at or after T+TTL fetches, and no call returns a snapshot
\* older than the TTL.
C24_TTLExpiry ==
    /\ [][\A t \in Listers : (SnapshotYoung /\ ListBegins(t))
            => /\ ltask'[t].pc = "idle"
               /\ ltask'[t].ret = "cached"
               /\ ltask'[t].result = agent_cache.list
               /\ nfetch' = nfetch
               /\ UNCHANGED <<agent_cache, cache_timestamp>>]_vars
    /\ [][\A t \in Listers : (SnapshotOld /\ ListBegins(t))
            => /\ ltask'[t].pc = "fetch"
               /\ nfetch' = nfetch + 1]_vars
    /\ [][\A t \in Listers :
            (ltask'[t] # ltask[t] /\ ltask'[t].pc = "idle")
            => /\ ltask'[t].ret = "cached"
                    => now' - cache_timestamp' < CACHE_TTL
               /\ ltask'[t].ret = "fetched"
                    => /\ cache_timestamp' = now'
                       /\ ltask'[t].result = agent_cache'.list
               /\ ltask'[t].ret = "failed"
                    => ltask'[t].result = <<>>]_vars

\* One call was served the snapshot at age CACHE_TTL - 1, and another,
\* finding it at age CACHE_TTL, is fetching.
C24_Witness ==
    \E t, u \in Listers :
       /\ ltask[t].pc = "idle" /\ ltask[t].ret = "cached"
       /\ ltask[t].age = CACHE_TTL - 1
       /\ ltask[u].pc = "fetch" /\ ltask[u].age = CACHE_TTL

\* The coroutines whose bridge.list_agents() call is outstanding.
Fetching == {t \in Listers : ltask[t].pc = "fetch"}

\* C25: one fetch refreshes an expired or absent snapshot, also when
\* several listing calls overlap: no two fetches are outstanding together.
C25_SingleFetch == Cardinality(Fetching) <= 1

\* C26: when the bridge listing call fails, the listing coroutine returns
\* the empty sequence and raises nothing, and the handler that lists the
\* tools still returns the tools discovered from files.
C26_ListingDegrades ==
    /\ [][\A t \in Listers : FetchRaises(t)
            => /\ ltask'[t].pc = "idle"
               /\ ltask'[t].ret = "failed"
               /\ ltask'[t].result = <<>>]_vars
    /\ [][\A t \in Listers : HandleListTools(t) => listing' = "tools"]_vars

\* Sequence r is the elements of g, in order, followed by those of p.
GlobalFirst(r, g, p) ==
    /\ Len(r) = Len(g) + Len(p)
    /\ \A i \in 1..Len(g) : r[i] = g[i]
    /\ \A j \in 1..Len(p) : r[Len(g) + j] = p[j]

\* C30: a successful fetch returns and stores the worker's global
\* descriptors followed by its project descriptors, each in its order,
\* replacing the previous snapshot and its timestamp.
C30_GlobalThenProject ==
    [][\A t \in Listers : \A data \in Listings :
          (ltask[t].pc = "fetch" /\ AgentSet(fetch_returned(AgentCur, t, data)))
          => /\ GlobalFirst(ltask'[t].result, data.global, data.project)
             /\ ltask'[t].ret = "fetched"
             /\ agent_cache' = [some |-> TRUE, list |-> ltask'[t].result]
             /\ cache_timestamp' = now]_vars

\* A call that found the snapshot expired has replaced it by a listing with
\* one global and one project agent, stamped with the time of the reply.
C30_Witness ==
    \E t \in Listers :
       /\ ltask[t].pc = "idle" /\ ltask[t].ret = "fetched"
       /\ ltask[t].age = CACHE_TTL
       /\ ltask[t].result = <<"g1", "p1">>
       /\ agent_cache.list = <<"g1", "p1">>
       /\ cache_timestamp = now

\* ------------------------------------------------------ more bridge claims
\* Task t reads a reply line in this step (L177 returns a non-empty line).
ReadsFrame(t) ==
    /\ task[t].pc = "read"
    /\ task'[t].pc = "idle"
    /\ outbox[task[t].proc] # <<>>
    /\ outbox'[task[t].proc] = Tail(outbox[task[t].proc])

\* Task t leaves the "async with self.lock" block in this step.
CallEnds(t) ==
    /\ task[t].rid # 0
    /\ task'[t].pc = "idle"
    /\ task[t].pc # "idle"

\* C28: calls are served in the order in which they acquire the lock (a
\* call ends before any later id is handed out), and every reply line a
\* call reads is the one the worker wrote in answer to that call's own
\* request.
C28_RepliesInOrder ==
    /\ [][\A t \in Tasks : ReadsFrame(t)
            => Head(outbox[task[t].proc]).req = task[t].rid]_vars
    /\ [][\A t \in Tasks : CallEnds(t) => task[t].rid = request_id]_vars

\* Two calls overlap: one waits for the lock while the other is about to
\* read the reply to its own request.
C28_Witness ==
    \E t, u \in Tasks :
       /\ task[t].pc = "lock_wait"
       /\ task[u].pc = "read"
       /\ outbox[task[u].proc] # <<>>
       /\ Head(outbox[task[u].proc]).req = task[u].rid

\* C29: a start() that finds no worker script fails at once with an error,
\* spawns no process and leaves the process handle, the readiness flag and
\* the sequence counter as they were.
ScriptMissing(t) ==
    /\ task[t].pc = "idle"
    /\ task'[t] # task[t]
    /\ task'[t].pc = "idle"
    /\ task'[t].result = "ScriptNotFound"

C29_MissingScript ==
    /\ [](\A t \in Tasks :
            (task[t].pc = "idle" /\ ~StartIsNoop(Cur)) =>
                LET S == start(Cur, t, FALSE)
                IN  /\ S.task[t].pc = "idle"
                    /\ S.task[t].result = "ScriptNotFound"
                    /\ S.process = process
                    /\ S.initialized = initialized
                    /\ S.request_id = request_id)
    /\ [][\A t \in Tasks :
            ScriptMissing(t) =>
                UNCHANGED <<process, initialized, request_id, spawned, alive>>]_vars

C29_Witness ==
    \E t \in Tasks :
        /\ task[t].pc = "idle"
        /\ task[t].op = "start"
        /\ task[t].result = "ScriptNotFound"
        /\ process # None
        /\ request_id > 0

\* -------------------------------------------------- capability objects
\* AgentTool and CeregrepQueryTool.
ToolKinds == {"agent", "query"}

\* The exception with which a bridge operation that ended on path res
\* leaves the client: every failure raised in start() and _send_request is
\* a ScoutBridgeError, except the ProcessLookupError that terminate() raises
\* inside the handlers of start().
Raised(res) ==
    IF res \in {"ok", "AlreadyReady"} THEN "none"
    ELSE IF res = "ProcessLookupError" THEN "ProcessLookupError"
    ELSE "ScoutBridgeError"

\* Whether the message of the failure contains "not found": it does for a
\* missing script (L77-79); a remote error and a spawn failure carry text
\* chosen by the worker or the system.
NotFoundIn(res) ==
    IF res = "ScriptNotFound" THEN {TRUE}
    ELSE IF res \in {"RemoteError", "StartFailed"} THEN BOOLEAN
    ELSE {FALSE}

\* Mutant: the last except clause is missing.
Handler_OnlyBridgeError(exc) ==
    IF exc = "ScoutBridgeError" THEN "ScoutBridgeError" ELSE "uncaught"

\* The except clause of execute that catches exc: ScoutBridgeError first,
\* then Exception.
Handler(exc) ==
    IF exc = "ScoutBridgeError" THEN "ScoutBridgeError" ELSE "Exception"

\* execute(arguments): has_arg tells whether arguments holds a non-empty
\* prompt/query, res is the exit path of the bridge operation it awaits
\* and notfound whether the failure message contains "not found".
execute(tool, has_arg, res, notfound) ==
    IF ~has_arg
    THEN [kind |-> "text",
          text |-> IF tool = "agent" THEN "prompt_required" ELSE "query_required"]
    ELSE IF Raised(res) = "none"
    THEN [kind |-> "text", text |-> "response"]
    ELSE IF Handler(Raised(res)) = "ScoutBridgeError"
    THEN [kind |-> "text",
          text |-> IF notfound THEN "failed_to_start" ELSE "failed"]
    ELSE IF Handler(Raised(res)) = "Exception"
    THEN [kind |-> "text", text |-> "error_executing"]
    ELSE [kind |-> "raised", text |-> Raised(res)]

\* Task t has ended a bridge operation that execute awaits: get_bridge's
\* start() or a request.
Awaited(t) == task[t].pc = "idle" /\ task[t].op \in {"start", "call"}

FailureTexts ==
    {"prompt_required", "query_required", "failed_to_start", "failed",
     "error_executing"}

\* C27: whatever way the bridge operation ends, and also when the
\* prompt/query argument is missing, execute returns a text; after a
\* failure or without the argument the text is one of the failure texts.
C27_ExecuteReturnsText ==
    \A t \in Tasks : Awaited(t) =>
        \A tool \in ToolKinds, has_arg \in BOOLEAN :
            \A nf \in NotFoundIn(task[t].result) :
                LET out == execute(tool, has_arg, task[t].result, nf)
                IN  /\ out.kind = "text"
                    /\ (~has_arg \/ Raised(task[t].result) # "none")
                           => out.text \in FailureTexts

C27_Witness ==
    \E t, u \in Tasks :
        /\ Awaited(t) /\ task[t].op = "call"
        /\ task[t].result = "ProcessLookupError"
        /\ Awaited(u) /\ task[u].result = "IdMismatch"

\* ============================================ more capability cache claims
\* A step that is a discover_tools invocation ending at L115.
HitStep == DiscoverStep /\ cache_hits' # cache_hits

\* C31: a discover() that is a cache hit adds exactly one to the hit
\* counter, returns at once and leaves the registry, the tracked files and
\* their mtimes, the miss counter and the last-scan duration as they were.
C31_HitChangesOnlyHits ==
    [][HitStep =>
          /\ cache_hits' = cache_hits + 1
          /\ dpc' = "idle"
          /\ UNCHANGED <<tools, file_mtimes, cache_misses, last_scan>>]_vars

C31_Witness ==
    /\ dpc = "idle"
    /\ ~RegistryEmpty
    /\ cache_hits > 0
    /\ cache_hits + cache_misses = ndisc
    /\ last_scan # 0 /\ last_scan < ndisc
    /\ \E f \in Files : file_mtimes[f] # Untracked

\* ==================================================== lifecycle claims
\* The session is Stopped: an explicit stop() was the last operation to
\* touch the session (it cleared a handle that had been spawned, every
\* other operation has ended normally and nothing has started since).
Stopped ==
    /\ process = None /\ ~initialized /\ spawned > 0
    /\ \E t \in Tasks : task[t].op = "stop" /\ task[t].result = "ok"
    /\ \A t \in Tasks :
          /\ task[t].pc = "idle"
          /\ task[t].op # "stop" => task[t].result \in {"", "ok", "AlreadyReady"}

\* C32: Stopped is terminal: from a Stopped session no step begins a new
\* start or changes the handle, the readiness flag or the set of processes.
C32_StoppedIsTerminal ==
    [][Stopped =>
          /\ UNCHANGED <<process, initialized, spawned>>
          /\ \A t \in Tasks : task'[t].pc # "spawning"]_vars

\* File f carries a reserved name: it starts with '_' or is base_tool.py.
ReservedName(f) == f \in {"_x.py", "base_tool.py"}

\* C33: a file with a reserved name is never tracked, never selected for
\* loading and never has a registry entry, whatever discover() calls are
\* made, forced reloads included.
C33_ReservedExcluded ==
    \A f \in Names : ReservedName(f) =>
        /\ file_mtimes[f] = Untracked
        /\ tools[f] = NoTool
        /\ f \notin dtodo
        /\ dcur # f

\* Both reserved files and one other file were written once each; a miss
\* loaded the other file, a hit followed, and a third pass rebuilt it
\* although it had not changed (a forced reload).
C33_Witness ==
    /\ dpc = "idle" /\ ndisc = 3
    /\ clock = 3
    /\ cache_hits = 1 /\ cache_misses = 2
    /\ \A f \in Names : ReservedName(f) => (fs[f] # NoFile /\ fs[f].ok)
    /\ \E f \in Files : Unchanged(f) /\ tools[f].gen = 3

\* ------------------------------------------------------------- ping
\* What the worker's result of a ping request can be: an object whose
\* status is 'ok', an object with another or no status, or no object.
Payloads == {"ok", "other", "no_status", "not_an_object"}

\* Mutant: the handler catches bridge errors only.
PingCatches_OnlyBridgeError(exc) == exc = "ScoutBridgeError"

\* The bare except at L299 catches whatever is raised.
PingCatches(exc) == TRUE

\* ping() (L289-300): res is the exit path of its _send_request, payload
\* the result the worker sent.
ping(res, payload) ==
    LET exc == IF Raised(res) # "none" THEN Raised(res)
               ELSE IF payload = "not_an_object" THEN "AttributeError"
               ELSE "none"
    IN  IF exc = "none" THEN [kind |-> "value", value |-> payload = "ok"]
        ELSE IF PingCatches(exc) THEN [kind |-> "value", value |-> FALSE]
        ELSE [kind |-> "raised", value |-> FALSE]

\* Task t has ended a _send_request.
Called(t) == task[t].pc = "idle" /\ task[t].op = "call"

\* C34: ping() always returns a boolean; it is true exactly when the
\* request completed and the result carries the status 'ok'.
C34_PingNeverRaises ==
    \A t \in Tasks : Called(t) =>
        \A payload \in Payloads :
            LET out == ping(task[t].result, payload)
            IN  /\ out.kind = "value"
                /\ out.value <=> (task[t].result = "ok" /\ payload = "ok")

C34_Witness ==
    \E t, u \in Tasks :
        /\ Called(t) /\ task[t].result = "ProcessLookupError"
        /\ Called(u) /\ task[u].result = "ok"

\* ----------------------------------------------------- cache statistics
\* Mutant: the files of the directory are counted instead of the tracked
\* ones.
get_cache_stats_CountsListed(K) ==
    LET total_requests == K.cache_hits + K.cache_misses
    IN  [cache_hits |-> K.cache_hits,
         cache_misses |-> K.cache_misses,
         hit_rate_percent |->
             IF total_requests > 0
             THEN (2 * 10000 * K.cache_hits + total_requests)
                      \div (2 * total_requests)
             ELSE 0,
         cached_tools |-> Cardinality({f \in Names : K.tools[f] # NoTool}),
         tracked_files |-> Cardinality(current_files(K))]

\* get_cache_stats (L209-226); hit_rate_percent is in hundredths of a
\* percent, rounded as round(hit_rate, 2) does.
get_cache_stats(K) ==
    LET total_requests == K.cache_hits + K.cache_misses
    IN  [cache_hits |-> K.cache_hits,
         cache_misses |-> K.cache_misses,
         hit_rate_percent |->
             IF total_requests > 0
             THEN (2 * 10000 * K.cache_hits + total_requests)
                      \div (2 * total_requests)
             ELSE 0,
         cached_tools |-> Cardinality({f \in Names : K.tools[f] # NoTool}),
         tracked_files |->
             Cardinality({f \in Names : K.file_mtimes[f] # Untracked})]

\* C35: before any discover() the statistics report no hit, no miss and a
\* hit rate of zero; in every state the reported numbers of cached tools
\* and tracked files are the sizes of the registry and of the tracking map,
\* and the hit rate is a percentage.
C35_StatsConsistent ==
    LET stats == get_cache_stats(CacheCur)
    IN  /\ ndisc = 0 => /\ stats.cache_hits = 0
                        /\ stats.cache_misses = 0
                        /\ stats.hit_rate_percent = 0
        /\ stats.hit_rate_percent \in 0..10000
        /\ stats.cached_tools = Cardinality({f \in Names : tools[f] # NoTool})
        /\ stats.tracked_files =
               Cardinality({f \in Names : file_mtimes[f] # Untracked})

\* A state with one hit and two misses where the registry holds fewer
\* tools than there are tracked files.
C35_Witness ==
    LET stats == get_cache_stats(CacheCur)
    IN  /\ dpc = "idle"
        /\ stats.cache_hits = 1 /\ stats.cache_misses = 2
        /\ stats.hit_rate_percent = 3333
        /\ stats.cached_tools = 1
        /\ stats.tracked_files = 2

\* ================================================= more bridge claims
\* C36: in every reachable state the readiness flag implies a process
\* handle.
C36_ReadyHasHandle == initialized => process # None

\* The start() run by task t stores a new handle (L83) over the handle of a
\* session that is not ready, while no other start() or stop() is under
\* way.
ReplacesHandle(t) ==
    /\ task[t].pc = "spawning"
    /\ task'[t].pc = "wait_ready"
    /\ process # None /\ ~initialized
    /\ \A u \in Tasks \ {t} :
          task[u].pc \notin {"spawning", "wait_ready", "stop_wait"}

\* C37: when a restart replaces the handle of a not-ready session, the
\* process of the old handle has been terminated: no worker stays alive
\* without being referenced by the session.
C37_OldWorkerTerminated ==
    [][\A t \in Tasks :
          ReplacesHandle(t) => /\ process \notin alive
                               /\ alive' \subseteq {process'}]_vars

\* Task t, queued on the lock, is handed it, allocates an id and writes
\* its request (L160-174).
SendsAfterWait(t) ==
    /\ task[t].pc = "lock_wait"
    /\ task'[t] # task[t]
    /\ request_id' = request_id + 1

\* C38: a call that was queued on the lock writes its request only to a
\* session that is Ready at the moment it is handed the lock.
C38_WritesOnlyWhenReady ==
    [][\A t \in Tasks : SendsAfterWait(t) => Ready(Cur)]_vars

\* ------------------------------------------------------------ liveness
\* A coroutine of task t that can take a step is eventually resumed by the
\* event loop; the deadlines of wait_for (L93, L126) are among its steps.
TaskStep(t) ==
    \/ SpawnDone(t) \/ ReadyOk(t) \/ ReadyTimeout(t) \/ ReadyEOF(t)
    \/ StopWaitDone(t) \/ StopWaitTimeout(t)
    \/ LockGranted(t)
    \/ DrainFailed(t) \/ DrainDone(t)
    \/ ReadReply(t) \/ ReadClosed(t)

\* Worker p answers the request it has received, or exits and so closes
\* its stream.
WorkerServes(p) == inbox[p] # <<>> /\ (WorkerReply(p) \/ WorkerExit(p))

\* The bridge with a fair event loop and workers that answer or close
\* their stream for every request.
SpecLive ==
    /\ Spec
    /\ \A t \in Tasks : WF_vars(TaskStep(t))
    /\ \A p \in Pids : WF_vars(WorkerServes(p))

\* C39: every call that has been issued eventually ends, and so does every
\* wait on the lock.
C39_CallsComplete ==
    \A t \in Tasks :
        (task[t].op = "call" /\ task[t].pc # "idle") ~> (task[t].pc = "idle")

====
